---- MODULE Spec2Model ----
(***************************************************************************)
(* A model of the Meross connector API: the HTTP handlers create_account   *)
(* and sync_devices (main.py), MerossService.connect_account / _login /    *)
(* sync_devices and the two pure helpers (meross_service.py), the          *)
(* FirestoreRepo (firestore_repo.py) and the token codec (crypto_utils.py).*)
(*                                                                         *)
(* One step of a request is everything the coroutine does between two      *)
(* awaits: the vendor calls (login, list devices, logout, close) are the   *)
(* only suspension points, the store calls are synchronous.                *)
(***************************************************************************)
EXTENDS Naturals, Integers, Sequences, FiniteSets, TLC

(***************************************************************************)
(* Bounds of the model.                                                    *)
(***************************************************************************)
\* HTTP requests (connect or sync) accepted over the life of the system.
MaxRequests == 2

\* The most attributes a credentials object given to the extractor carries.
MaxCredAttrs == 2

\* The most keys or attributes a raw device record given to the normaliser
\* carries.
MaxDeviceFields == 2

(***************************************************************************)
(* Text.  A Python str is a sequence of one-character strings, so that     *)
(* "substring of" and concatenation are computed and not assumed.          *)
(***************************************************************************)
Contains(hay, needle) ==
    \E i \in 1..(Len(hay) + 1) :
        /\ i + Len(needle) - 1 <= Len(hay)
        /\ SubSeq(hay, i, i + Len(needle) - 1) = needle

\* The message of the ValueError connect_account raises when no candidate
\* yielded a session handle.
LoginFailedMessage ==
    << "M", "e", "r", "o", "s", "s", " ", "l", "o", "g", "i", "n", " ", "f", "a", "i", "l",
       "e", "d", ".", " ", "I", "f", " ", "y", "o", "u", " ", "u", "s", "e", " ", "A", "p",
       "p", "l", "e", "/", "G", "o", "o", "g", "l", "e", " ", "s", "i", "g", "n", "-", "i",
       "n", ",", " ", "p", "l", "e", "a", "s", "e", " ", "s", "e", "t", "/", "r", "e", "s",
       "e", "t", " ", "a", " ", "M", "e", "r", "o", "s", "s", " ", "p", "a", "s", "s", "w",
       "o", "r", "d", " ", "i", "n", " ", "t", "h", "e", " ", "M", "e", "r", "o", "s", "s",
       " ", "a", "p", "p", " ", "a", "n", "d", " ", "t", "r", "y", " ", "a", "g", "a", "i",
       "n", "." >>

\* The message of the ValueError sync_devices raises for an existing account.
SyncUnsupportedMessage ==
    << "T", "o", "k", "e", "n", "-", "b", "a", "s", "e", "d", " ", "s", "y", "n", "c", " ",
       "i", "s", " ", "n", "o", "t", " ", "e", "n", "a", "b", "l", "e", "d", " ", "i", "n",
       " ", "M", "V", "P", ".", " ", "P", "l", "e", "a", "s", "e", " ", "r", "e", "c", "o",
       "n", "n", "e", "c", "t", " ", "t", "h", "e", " ", "a", "c", "c", "o", "u", "n", "t",
       " ", "t", "o", " ", "r", "e", "f", "r", "e", "s", "h", " ", "d", "e", "v", "i", "c",
       "e", "s", "." >>

\* The message of the KeyError sync_devices raises.
AccountNotFoundMessage ==
    << "a", "c", "c", "o", "u", "n", "t", " ", "n", "o", "t", " ", "f", "o", "u", "n", "d" >>

\* The details of the HTTPExceptions main.py raises.
AccountNotFoundDetail ==
    << "A", "c", "c", "o", "u", "n", "t", " ", "n", "o", "t", " ", "f", "o", "u", "n", "d",
       "." >>

ForbiddenDetail == << "F", "o", "r", "b", "i", "d", "d", "e", "n", "." >>

AdminKeyNotSetDetail ==
    << "S", "e", "r", "v", "e", "r", " ", "m", "i", "s", "c", "o", "n", "f", "i", "g", "u",
       "r", "e", "d", ":", " ", "A", "D", "M", "I", "N", "_", "A", "P", "I", "_", "K", "E",
       "Y", " ", "n", "o", "t", " ", "s", "e", "t", "." >>

RequiredDetail ==
    << "e", "m", "a", "i", "l", " ", "a", "n", "d", " ", "p", "a", "s", "s", "w", "o", "r",
       "d", " ", "a", "r", "e", " ", "r", "e", "q", "u", "i", "r", "e", "d", "." >>

InternalErrorPrefix ==
    << "I", "n", "t", "e", "r", "n", "a", "l", " ", "e", "r", "r", "o", "r", ":", " " >>

\* type(e).__name__ of the exception classes that occur in the model.
TypeName(t) ==
    CASE t = "TypeError" -> << "T", "y", "p", "e", "E", "r", "r", "o", "r" >>
      [] t = "KeyError" -> << "K", "e", "y", "E", "r", "r", "o", "r" >>
      [] t = "ValueError" -> << "V", "a", "l", "u", "e", "E", "r", "r", "o", "r" >>
      [] t = "RuntimeError" ->
            << "R", "u", "n", "t", "i", "m", "e", "E", "r", "r", "o", "r" >>
      [] t = "InvalidToken" ->
            << "I", "n", "v", "a", "l", "i", "d", "T", "o", "k", "e", "n" >>
      [] t = "ValidationError" ->
            << "V", "a", "l", "i", "d", "a", "t", "i", "o", "n", "E", "r", "r", "o", "r" >>
      [] t = "ServiceUnavailable" ->
            << "S", "e", "r", "v", "i", "c", "e", "U", "n", "a", "v", "a", "i", "l", "a",
               "b", "l", "e" >>
      [] OTHER -> << "E", "x", "c", "e", "p", "t", "i", "o", "n" >>

\* Python's class hierarchy, as far as the except clauses of the program tell
\* classes apart: pydantic's ValidationError is a ValueError.
IsValueError(t) == t \in {"ValueError", "ValidationError"}
IsKeyError(t) == t = "KeyError"
IsTypeError(t) == t = "TypeError"

\* The text an exception of the vendor library carries (str(e)).
VendorRawText ==
    << "v", "e", "n", "d", "o", "r", ":", " ", "b", "a", "d", " ", "r", "e", "p", "l", "y" >>

\* str(e) of the ValidationError CreateAccountResponse raises.
ValidationText ==
    << "1", " ", "v", "a", "l", "i", "d", "a", "t", "i", "o", "n", " ", "e", "r", "r",
       "o", "r" >>

(***************************************************************************)
(* Python values.  A value is a record of its type's name and its text, so *)
(* that isinstance, truthiness and "is None" are computed from the type.   *)
(* Missing stands for an attribute or key the object does not have.        *)
(***************************************************************************)
PyNone == [t |-> "NoneType", v |-> "None"]
Missing == [t |-> "missing", v |-> ""]
PyStr(s) == [t |-> "str", v |-> s]
PyInt(s) == [t |-> "int", v |-> s]
PyBool(b) == [t |-> "bool", v |-> IF b THEN "True" ELSE "False"]
PyBytes(s) == [t |-> "bytes", v |-> s]
PyDict(s) == [t |-> "dict", v |-> s]
PyObject(s) == [t |-> "object", v |-> s]

\* bool(x)
Truthy(x) ==
    CASE x.t = "NoneType" -> FALSE
      [] x.t = "missing" -> FALSE
      [] x.t = "bool" -> x.v = "True"
      [] x.t = "int" -> x.v # "0"
      [] x.t = "str" -> x.v # ""
      [] x.t = "bytes" -> x.v # ""
      [] x.t = "dict" -> x.v # "{}"
      [] OTHER -> TRUE

\* a or b
PyOr(a, b) == IF Truthy(a) THEN a ELSE b

\* str(x): a str is itself, any other value is rendered.
PyStrOf(x) ==
    CASE x.t = "str" -> x
      [] x.t = "bytes" /\ x.v = "tok" -> PyStr("b'tok'")
      [] x.t = "object" -> PyStr("<object>")
      [] OTHER -> PyStr(x.v)

\* A dict: a function from its keys.
EmptyDict == [k \in {} |-> PyNone]
DictPut(d, k, val) == [x \in (DOMAIN d) \cup {k} |-> IF x = k THEN val ELSE d[x]]

(***************************************************************************)
(* Credential extraction (meross_service.py, 86-139).                      *)
(***************************************************************************)
\* (source attribute, destination key), in the order the loop visits them.
key_map ==
    << <<"token", "token">>, <<"key", "key">>, <<"userid", "userid">>,
       <<"userId", "userid">>, <<"email", "email">>, <<"domain", "domain">>,
       <<"region", "region">>, <<"mqttDomain", "mqttDomain">>,
       <<"mqtt_domain", "mqttDomain">>, <<"mqttPort", "mqttPort">>,
       <<"mqtt_port", "mqttPort">> >>

\* The attribute names a credentials object of the model may carry: the
\* sources of key_map, cloudToken, and names outside the whitelist.
CredAttrs ==
    {"token", "key", "userid", "userId", "email", "domain", "region", "mqttDomain",
     "mqtt_domain", "mqttPort", "mqtt_port", "cloudToken", "password", "_session"}

\* hasattr(o, a), for an object given as a function from attribute names.
hasattr(o, a) == o[a] # Missing

RECURSIVE WhitelistLoop(_, _, _)
WhitelistLoop(creds, i, data) ==
    IF i > Len(key_map) THEN data
    ELSE LET src == key_map[i][1]
             dst == key_map[i][2]
         IN  IF hasattr(creds, src) /\ creds[src] # PyNone
             THEN WhitelistLoop(creds, i + 1, DictPut(data, dst, creds[src]))
             ELSE WhitelistLoop(creds, i + 1, data)

\* _extract_cloud_creds_whitelist copying every attribute the object has.
_extract_cloud_creds_whitelist_CopyingAll(creds) ==
    [a \in {b \in DOMAIN creds : creds[b] # Missing} |-> creds[a]]

_extract_cloud_creds_whitelist(creds) ==
    LET data == WhitelistLoop(creds, 1, EmptyDict)
    IN  IF hasattr(creds, "cloudToken") /\ Truthy(creds["cloudToken"])
        THEN DictPut(data, "cloudToken", creds["cloudToken"])
        ELSE data

\* A session handle: its cloud_credentials attribute (missing, None or an
\* object with attributes) and its token attribute.
_extract_token_payload(http) ==
    IF http.cloud_credentials.t # "missing" /\ Truthy(http.cloud_credentials)
    THEN _extract_cloud_creds_whitelist(http.cloud_credentials.attrs)
    ELSE IF hasattr(http, "token") /\ Truthy(http.token)
         THEN DictPut(EmptyDict, "token", PyStrOf(http.token))
         ELSE DictPut(EmptyDict, "session", PyStr("unknown"))

\* json.dumps accepts str, int, bool, None and dicts of them; it raises
\* TypeError on a byte string or an arbitrary object.
JsonSerializable(x) == x.t \in {"str", "int", "bool", "NoneType", "dict"}

\* json.dumps(token_payload, ensure_ascii=False): the JSON text of the
\* mapping, or the TypeError it raises.
JsonDumps(payload) ==
    IF \A k \in DOMAIN payload : JsonSerializable(payload[k])
    THEN [raised |-> FALSE, type |-> "", text |-> [json |-> payload]]
    ELSE [raised |-> TRUE, type |-> "TypeError", text |-> [json |-> EmptyDict]]

\* The credentials objects and session handles the vendor returns in the model.
NoAttrs == [a \in CredAttrs |-> Missing]

ModernCreds ==
    [a \in CredAttrs |->
        CASE a = "token" -> PyStr("tok")
          [] a = "key" -> PyStr("k3y")
          [] a = "userId" -> PyInt("42")
          [] a = "domain" -> PyStr("iotx.meross.com")
          [] a = "mqtt_domain" -> PyStr("mqtt.meross.com")
          [] a = "password" -> PyStr("hunter2")
          [] OTHER -> Missing]

BytesCreds ==
    [a \in CredAttrs |->
        CASE a = "token" -> PyBytes("tok")
          [] a = "key" -> PyStr("k3y")
          [] OTHER -> Missing]

HandleObject(shape) ==
    CASE shape = "modern" ->
            [cloud_credentials |-> [t |-> "object", v |-> "creds", attrs |-> ModernCreds],
             token |-> Missing]
      [] shape = "bytes" ->
            [cloud_credentials |-> [t |-> "object", v |-> "creds", attrs |-> BytesCreds],
             token |-> Missing]
      [] shape = "legacy" ->
            [cloud_credentials |-> [t |-> "missing", v |-> "", attrs |-> NoAttrs],
             token |-> PyStr("tok")]
      [] OTHER ->
            [cloud_credentials |-> [t |-> "NoneType", v |-> "None", attrs |-> NoAttrs],
             token |-> Missing]

\* The shapes of session handle a login of the model may return.
HandleShapes == {"modern", "bytes"}

(***************************************************************************)
(* Device normalisation (meross_service.py, 198-233) and the Device schema *)
(* of the response (models.py, 4-10).                                      *)
(***************************************************************************)
\* The keys or attributes a raw device record of the model may carry.
DeviceFields ==
    {"uuid", "deviceId", "id", "device_id", "devName", "name", "deviceType", "model",
     "type", "onlineStatus", "online_status", "abilities", "capabilities"}

\* d.get(k): None when the key is absent.
DictGet(d, k) == IF d.f[k] = Missing THEN PyNone ELSE d.f[k]

\* getattr(d, a, default)
getattr(d, a, default) == IF d.f[a] = Missing THEN default ELSE d.f[a]

\* The record built from one element of the raw list that is a dict.
NormalizeDict(d) ==
    [deviceId |-> PyOr(PyOr(PyOr(DictGet(d, "uuid"), DictGet(d, "deviceId")),
                            DictGet(d, "id")), PyStr("")),
     name |-> PyOr(DictGet(d, "devName"), DictGet(d, "name")),
     model |-> PyOr(DictGet(d, "deviceType"), DictGet(d, "model")),
     type |-> PyOr(DictGet(d, "deviceType"), DictGet(d, "type")),
     onlineStatus |-> IF DictGet(d, "onlineStatus").t = "bool"
                      THEN DictGet(d, "onlineStatus") ELSE PyNone,
     capabilities |-> PyOr(DictGet(d, "abilities"), DictGet(d, "capabilities"))]

\* The record built from an element that is not a dict (an object).
NormalizeObject(d) ==
    [deviceId |-> PyOr(PyOr(getattr(d, "uuid", PyStr("")),
                            getattr(d, "device_id", PyStr(""))), PyStr("")),
     name |-> getattr(d, "name", PyNone),
     model |-> getattr(d, "model", PyNone),
     type |-> getattr(d, "type", PyNone),
     onlineStatus |-> getattr(d, "online_status", PyNone),
     capabilities |-> PyOr(getattr(d, "abilities", PyNone),
                           getattr(d, "capabilities", PyNone))]

\* devices_raw is a list of records or some other value.
_normalize_devices(devices_raw) ==
    IF devices_raw.isList
    THEN [i \in 1..Len(devices_raw.items) |->
            IF devices_raw.items[i].kind = "dict"
            THEN NormalizeDict(devices_raw.items[i])
            ELSE NormalizeObject(devices_raw.items[i])]
    ELSE << >>

\* Whether pydantic accepts a normalised record as a Device: deviceId is a
\* str, the other fields are of the declared type or None.
DeviceValid(d) ==
    /\ d.deviceId.t = "str"
    /\ d.name.t \in {"str", "NoneType"}
    /\ d.model.t \in {"str", "NoneType"}
    /\ d.type.t \in {"str", "NoneType"}
    /\ d.onlineStatus.t \in {"bool", "NoneType"}
    /\ d.capabilities.t \in {"dict", "NoneType"}

\* The raw device lists the vendor returns in the model.
DictDevice ==
    [kind |-> "dict",
     f |-> [k \in DeviceFields |->
              CASE k = "uuid" -> PyStr("u-1")
                [] k = "devName" -> PyStr("plug")
                [] k = "deviceType" -> PyStr("mss110")
                [] k = "onlineStatus" -> PyBool(TRUE)
                [] OTHER -> Missing]]

ObjectDevice ==
    [kind |-> "obj",
     f |-> [k \in DeviceFields |->
              CASE k = "uuid" -> PyStr("u-2")
                [] k = "name" -> PyStr("lamp")
                [] k = "online_status" -> PyStr("online")
                [] OTHER -> Missing]]

RawDeviceLists ==
    { [isList |-> TRUE, items |-> << DictDevice >>],
      [isList |-> TRUE, items |-> << ObjectDevice >>] }

(***************************************************************************)
(* The token codec (crypto_utils.py).  A Fernet token is modelled by the   *)
(* key that sealed it and the text it seals: decrypting needs that key.    *)
(***************************************************************************)
\* The values of MEROSS_TOKEN_ENC_KEY in the model; "" is unset (or blank).
EncKeys == {"", "key-A"}

\* get_fernet raises RuntimeError when the key is empty.
get_fernet(key) ==
    IF key = "" THEN [raised |-> TRUE, type |-> "RuntimeError", key |-> key]
    ELSE [raised |-> FALSE, type |-> "", key |-> key]

\* encrypt_str sealing with whatever key there is, the empty one included.
encrypt_str_WithoutKeyCheck(key, value) ==
    [raised |-> FALSE, type |-> "", token |-> [sealedWith |-> key, plain |-> value]]

encrypt_str(key, value) ==
    LET f == get_fernet(key)
    IN  IF f.raised
        THEN [raised |-> TRUE, type |-> f.type, token |-> [sealedWith |-> "", plain |-> value]]
        ELSE [raised |-> FALSE, type |-> "",
              token |-> [sealedWith |-> f.key, plain |-> value]]

decrypt_str(key, value_enc) ==
    LET f == get_fernet(key)
    IN  IF f.raised THEN [raised |-> TRUE, type |-> f.type, text |-> value_enc.plain]
        ELSE IF value_enc.sealedWith # f.key
        THEN [raised |-> TRUE, type |-> "InvalidToken", text |-> value_enc.plain]
        ELSE [raised |-> FALSE, type |-> "", text |-> value_enc.plain]

(***************************************************************************)
(* The account store (firestore_repo.py).  The collection is a sequence of *)
(* documents; a document's id is its position, so document() with no       *)
(* argument, which draws a fresh id, is the next position.  A timestamp is *)
(* a reading of the clock, and 0 stands for None.                          *)
(***************************************************************************)
\* The exception a store call raises when the store cannot be reached.
StoreDown == "ServiceUnavailable"

\* create_or_update_account_auth writing to the document that already has
\* the email, when there is one.
create_or_update_account_auth_ByEmail(docs, now, key, email, token_plain, storeUp) ==
    LET enc == encrypt_str(key, token_plain)
        same == {i \in DOMAIN docs : docs[i].email = email}
        doc_id == IF same = {} THEN Len(docs) + 1 ELSE CHOOSE i \in same : TRUE
        doc == [email |-> email,
                status |-> "connected",
                createdAt |-> now,
                lastSyncedAt |-> 0,
                tokenEncrypted |-> enc.token,
                hasDevices |-> FALSE,
                devices |-> << >>]
    IN  IF enc.raised THEN [raised |-> TRUE, type |-> enc.type, docs |-> docs, id |-> 0]
        ELSE IF ~storeUp THEN [raised |-> TRUE, type |-> StoreDown, docs |-> docs, id |-> 0]
        ELSE IF same = {}
        THEN [raised |-> FALSE, type |-> "", docs |-> Append(docs, doc), id |-> doc_id]
        ELSE [raised |-> FALSE, type |-> "",
              docs |-> [docs EXCEPT ![doc_id] = [@ EXCEPT !.tokenEncrypted = enc.token]],
              id |-> doc_id]

create_or_update_account_auth(docs, now, key, email, token_plain, storeUp) ==
    LET enc == encrypt_str(key, token_plain)
        doc_id == Len(docs) + 1
        doc == [email |-> email,
                status |-> "connected",
                createdAt |-> now,
                lastSyncedAt |-> 0,
                tokenEncrypted |-> enc.token,
                hasDevices |-> FALSE,
                devices |-> << >>]
    IN  IF enc.raised THEN [raised |-> TRUE, type |-> enc.type, docs |-> docs, id |-> 0]
        ELSE IF ~storeUp THEN [raised |-> TRUE, type |-> StoreDown, docs |-> docs, id |-> 0]
        ELSE [raised |-> FALSE, type |-> "", docs |-> Append(docs, doc), id |-> doc_id]

\* set_account_devices updating the first document of the collection.
set_account_devices_FirstDocument(docs, now, account_id, devices, storeUp) ==
    IF ~storeUp THEN [raised |-> TRUE, type |-> StoreDown, docs |-> docs]
    ELSE IF account_id \notin DOMAIN docs
    THEN [raised |-> TRUE, type |-> "NotFound", docs |-> docs]
    ELSE [raised |-> FALSE, type |-> "",
          docs |-> [docs EXCEPT ![1] =
                      [@ EXCEPT !.devices = devices, !.hasDevices = TRUE,
                                !.lastSyncedAt = now, !.status = "connected"]]]

set_account_devices(docs, now, account_id, devices, storeUp) ==
    IF ~storeUp THEN [raised |-> TRUE, type |-> StoreDown, docs |-> docs]
    ELSE IF account_id \notin DOMAIN docs
    THEN [raised |-> TRUE, type |-> "NotFound", docs |-> docs]
    ELSE [raised |-> FALSE, type |-> "",
          docs |-> [docs EXCEPT ![account_id] =
                      [@ EXCEPT !.devices = devices, !.hasDevices = TRUE,
                                !.lastSyncedAt = now, !.status = "connected"]]]

\* The decrypted token, None (no document), or the exception decrypt raises.
get_account_token(docs, key, account_id) ==
    IF account_id \notin DOMAIN docs
    THEN [raised |-> FALSE, type |-> "", isNone |-> TRUE, text |-> [json |-> EmptyDict]]
    ELSE LET dec == decrypt_str(key, docs[account_id].tokenEncrypted)
         IN  [raised |-> dec.raised, type |-> dec.type, isNone |-> FALSE,
              text |-> dec.text]

(***************************************************************************)
(* The login strategy (meross_service.py, 20-41 and 145-182).              *)
(***************************************************************************)
api_candidates ==
    << "https://iotx.meross.com", "https://iot.meross.com", "https://iotx-us.meross.com",
       "https://iotx-eu.meross.com", "https://iotx-ap.meross.com" >>

\* The four call shapes _login tries, in its order.
SignatureVariants ==
    << "api_base_url=, email=, password=", "email=, password=",
       "(api_base_url, email, password)", "(email, password, api_base_url)" >>

\* What one vendor login call may do: return a session handle, return None,
\* or raise.
LoginOutcomes ==
    [kind : {"handle"}, shape : HandleShapes, type : {""}]
        \cup [kind : {"none"}, shape : {"None"}, type : {""}]
        \cup [kind : {"raise"}, shape : {"None"}, type : {"TypeError", "KeyError", "BadLoginException"}]

\* NextCandidate with a failure of any kind moving on to the next signature
\* variant, the endpoint being left only after its last variant.
NextCandidate_AnyFailureNextVariant(e, s, o) ==
    IF o.kind = "handle" THEN [next |-> "stop", ep |-> e, sig |-> s]
    ELSE IF s < Len(SignatureVariants)
    THEN [next |-> "try", ep |-> e, sig |-> s + 1]
    ELSE IF e < Len(api_candidates)
    THEN [next |-> "try", ep |-> e + 1, sig |-> 1]
    ELSE [next |-> "exhausted", ep |-> e, sig |-> s]

\* NextCandidate with a signature mismatch leaving the endpoint like any
\* other failure.
NextCandidate_MismatchNextEndpoint(e, s, o) ==
    IF o.kind = "handle" THEN [next |-> "stop", ep |-> e, sig |-> s]
    ELSE IF e < Len(api_candidates)
    THEN [next |-> "try", ep |-> e + 1, sig |-> 1]
    ELSE [next |-> "exhausted", ep |-> e, sig |-> s]

\* NextCandidate with the next endpoint entered at the signature variant the
\* last one was left at.
NextCandidate_KeepingVariant(e, s, o) ==
    IF o.kind = "handle" THEN [next |-> "stop", ep |-> e, sig |-> s]
    ELSE IF o.kind = "raise" /\ IsTypeError(o.type) /\ s < Len(SignatureVariants)
    THEN [next |-> "try", ep |-> e, sig |-> s + 1]
    ELSE IF e < Len(api_candidates)
    THEN [next |-> "try", ep |-> e + 1, sig |-> s]
    ELSE [next |-> "exhausted", ep |-> e, sig |-> s]

\* NextCandidate with the search starting over from the first endpoint once
\* the last one has failed.
NextCandidate_StartingOver(e, s, o) ==
    IF o.kind = "handle" THEN [next |-> "stop", ep |-> e, sig |-> s]
    ELSE IF o.kind = "raise" /\ IsTypeError(o.type) /\ s < Len(SignatureVariants)
    THEN [next |-> "try", ep |-> e, sig |-> s + 1]
    ELSE IF e < Len(api_candidates)
    THEN [next |-> "try", ep |-> e + 1, sig |-> 1]
    ELSE [next |-> "try", ep |-> 1, sig |-> 1]

\* Where the search goes after the call of signature variant s at endpoint e
\* ended as o: "stop" with the handle, "try" the candidate (ep, sig), or
\* "exhausted".  _login moves to the next variant on TypeError, except from
\* the last variant, whose call is outside any try; whatever leaves _login
\* (an exception or None) moves connect_account to the next endpoint.
NextCandidate(e, s, o) ==
    IF o.kind = "handle" THEN [next |-> "stop", ep |-> e, sig |-> s]
    ELSE IF o.kind = "raise" /\ IsTypeError(o.type) /\ s < Len(SignatureVariants)
    THEN [next |-> "try", ep |-> e, sig |-> s + 1]
    ELSE IF e < Len(api_candidates)
    THEN [next |-> "try", ep |-> e + 1, sig |-> 1]
    ELSE [next |-> "exhausted", ep |-> e, sig |-> s]

(***************************************************************************)
(* The state.                                                              *)
(***************************************************************************)
\* The requests that may be in flight at once.
CallIds == {1, 2}

VARIABLES
    accounts,    \* the merossAccounts collection
    clock,       \* the next reading of datetime.now
    encKey,      \* MEROSS_TOKEN_ENC_KEY
    budget,      \* requests the model still accepts
    pc,          \* per request: the await it is suspended at
    req,         \* per request: the operation and its arguments
    ep,          \* per connect: index of api_base_url in api_candidates
    sig,         \* per connect: index of the signature variant being called
    http,        \* per connect: the session handle, or NoHandle
    account_id,  \* per connect: the local account_id (0: unset)
    devices,     \* per connect: the local devices
    pending,     \* per connect: how the try block was left
    trace,       \* per connect: the calls made once the login search ended
    resp,        \* per request: the HTTP response
    hist,        \* per connect: the login calls made (history variable)
    handle,         \* the session handle given to _extract_token_payload
    token_payload,  \* << >>, or its result once it was called
    devices_raw,    \* the value given to _normalize_devices
    normalized      \* << >>, or its result once it was called

vars ==
    << accounts, clock, encKey, budget, pc, req, ep, sig, http, account_id, devices,
       pending, trace, resp, hist, handle, token_payload, devices_raw, normalized >>

\* The variables of the two functions studied on their own.
pure == << handle, token_payload, devices_raw, normalized >>

NoReq == [op |-> "none", email |-> "", password |-> << >>, account_id |-> 0]
NoHandle == [owner |-> 0, shape |-> "None"]
NoPending ==
    [kind |-> "none", type |-> "", msg |-> << >>, accountId |-> 0, status |-> "",
     devices |-> << >>]
NoResp == [code |-> 0, detail |-> << >>, accountId |-> 0, status |-> "", devices |-> << >>]
NoHist == [log |-> << >>]

Returned(id, devs) ==
    [kind |-> "return", type |-> "", msg |-> << >>, accountId |-> id,
     status |-> "connected", devices |-> devs]
Raised(type, msg) ==
    [kind |-> "raise", type |-> type, msg |-> msg, accountId |-> 0, status |-> "",
     devices |-> << >>]

\* A call made: its name, the handle or account it is made on, whether it raised.
Event(op, arg, raised) == [op |-> op, arg |-> arg, raised |-> raised]

HttpError(code, detail) ==
    [code |-> code, detail |-> detail, accountId |-> 0, status |-> "", devices |-> << >>]

\* The requests of the model: two users, and a request with no password.
ConnectRequests ==
    { [op |-> "connect", email |-> "a@x.com", password |-> << "p" >>, account_id |-> 0],
      [op |-> "connect", email |-> "b@x.com",
       password |-> << "h", "u", "n", "t", "e", "r", "2" >>, account_id |-> 0],
      [op |-> "connect", email |-> "a@x.com", password |-> << >>, account_id |-> 0] }

\* require_admin: passes, or raises 403, or raises 500 (ADMIN_API_KEY unset).
AdminOutcomes == {"ok", "forbidden", "unset"}

require_admin(admin) ==
    CASE admin = "unset" -> HttpError(500, AdminKeyNotSetDetail)
      [] admin = "forbidden" -> HttpError(403, ForbiddenDetail)
      [] OTHER -> NoResp

InitRequests ==
    /\ accounts = << >>
    /\ clock = 1
    /\ encKey \in EncKeys
    /\ budget = MaxRequests
    /\ pc = [c \in CallIds |-> "idle"]
    /\ req = [c \in CallIds |-> NoReq]
    /\ ep = [c \in CallIds |-> 0]
    /\ sig = [c \in CallIds |-> 0]
    /\ http = [c \in CallIds |-> NoHandle]
    /\ account_id = [c \in CallIds |-> 0]
    /\ devices = [c \in CallIds |-> << >>]
    /\ pending = [c \in CallIds |-> NoPending]
    /\ trace = [c \in CallIds |-> << >>]
    /\ resp = [c \in CallIds |-> NoResp]
    /\ hist = [c \in CallIds |-> NoHist]

\* Neither function is under study: no input, no result.
NoSession == HandleObject("none")
NoRaw == [isList |-> FALSE, items |-> << >>]

InitPure ==
    /\ handle = NoSession
    /\ token_payload = << >>
    /\ devices_raw = NoRaw
    /\ normalized = << >>

Init == InitRequests /\ InitPure

(***************************************************************************)
(* The HTTP handlers' mapping of an outcome to a response (main.py).       *)
(***************************************************************************)
\* create_account, lines 65-77: the result goes through CreateAccountResponse,
\* whose ValidationError is a ValueError like the one of a failed login.
create_account_response(p) ==
    IF p.kind = "return"
    THEN IF \A i \in 1..Len(p.devices) : DeviceValid(p.devices[i])
         THEN [code |-> 200, detail |-> << >>, accountId |-> p.accountId,
               status |-> p.status, devices |-> p.devices]
         ELSE HttpError(401, ValidationText)
    ELSE IF IsValueError(p.type) THEN HttpError(401, p.msg)
    ELSE HttpError(500, InternalErrorPrefix \o TypeName(p.type))

\* sync_devices (the handler), lines 95-107.
sync_devices_response(p) ==
    IF p.kind = "return"
    THEN [code |-> 200, detail |-> << >>, accountId |-> p.accountId,
          status |-> p.status, devices |-> p.devices]
    ELSE IF IsKeyError(p.type) THEN HttpError(404, AccountNotFoundDetail)
    ELSE IF IsValueError(p.type) THEN HttpError(400, p.msg)
    ELSE HttpError(500, InternalErrorPrefix \o TypeName(p.type))

\* sync_devices answering from the stored token when there is one.
sync_devices_FromToken(docs, key, id) ==
    LET token_plain == get_account_token(docs, key, id)
    IN  IF token_plain.raised THEN Raised(token_plain.type, << >>)
        ELSE IF token_plain.isNone THEN Raised("KeyError", AccountNotFoundMessage)
        ELSE Returned(id, docs[id].devices)

\* MerossService.sync_devices, lines 188-196: it never returns.
sync_devices(docs, key, id) ==
    LET token_plain == get_account_token(docs, key, id)
    IN  IF token_plain.raised THEN Raised(token_plain.type, << >>)
        ELSE IF token_plain.isNone THEN Raised("KeyError", AccountNotFoundMessage)
        ELSE Raised("ValueError", SyncUnsupportedMessage)

(***************************************************************************)
(* The steps of a request.                                                 *)
(***************************************************************************)
\* POST /accounts arrives: the admin gate, the presence check, then
\* connect_account up to its first await, the first login call.
CreateAccount(c, r, admin) ==
    /\ pc[c] = "idle"
    /\ req' = [req EXCEPT ![c] = r]
    /\ IF admin # "ok"
       THEN /\ resp' = [resp EXCEPT ![c] = require_admin(admin)]
            /\ pc' = [pc EXCEPT ![c] = "done"]
            /\ UNCHANGED << ep, sig >>
       ELSE IF r.email = "" \/ r.password = << >>
       THEN /\ resp' = [resp EXCEPT ![c] = HttpError(400, RequiredDetail)]
            /\ pc' = [pc EXCEPT ![c] = "done"]
            /\ UNCHANGED << ep, sig >>
       ELSE /\ pc' = [pc EXCEPT ![c] = "login"]
            /\ ep' = [ep EXCEPT ![c] = 1]
            /\ sig' = [sig EXCEPT ![c] = 1]
            /\ UNCHANGED resp
    /\ UNCHANGED << accounts, clock, encKey, http, account_id, devices, pending, trace >>

\* The token_plain of a session handle: the extracted payload, serialised.
TokenPlain(h) == JsonDumps(_extract_token_payload(HandleObject(h.shape)))

\* Leave with the handle closed only when the try block returned.
Leave_CloseOnlyOnReturn(c, p, h) ==
    /\ pending' = [pending EXCEPT ![c] = p]
    /\ IF h # NoHandle /\ p.kind = "return"
       THEN /\ pc' = [pc EXCEPT ![c] = "close"]
            /\ UNCHANGED resp
       ELSE /\ pc' = [pc EXCEPT ![c] = "done"]
            /\ resp' = [resp EXCEPT ![c] = create_account_response(p)]

\* Leave with the close of the finally awaited whether or not there is a
\* handle.
Leave_AlwaysClosing(c, p, h) ==
    /\ pending' = [pending EXCEPT ![c] = p]
    /\ pc' = [pc EXCEPT ![c] = "close"]
    /\ UNCHANGED resp

\* The try block of connect_account is left as p (a return or a raise) with
\* h the value of http: the finally awaits close when there is a handle, and
\* otherwise connect_account is over and create_account answers.
Leave(c, p, h) ==
    /\ pending' = [pending EXCEPT ![c] = p]
    /\ IF h # NoHandle
       THEN /\ pc' = [pc EXCEPT ![c] = "close"]
            /\ UNCHANGED resp
       ELSE /\ pc' = [pc EXCEPT ![c] = "done"]
            /\ resp' = [resp EXCEPT ![c] = create_account_response(p)]

\* LoginFailed with the password appended to the message.
LoginFailed_EchoingPassword(email, password) ==
    Raised("ValueError", LoginFailedMessage \o password)

\* The raise of lines 43-47, when the loop ended with http None; email and
\* password are in scope and the message uses neither.
LoginFailed(email, password) == Raised("ValueError", LoginFailedMessage)

\* A vendor login call ends as o.  On a handle the loop breaks and the
\* coroutine runs to its next await: list devices, or the close of the
\* finally when json.dumps raised.  With the candidates exhausted
\* connect_account raises LoginFailed.
LoginReturn(c, o) ==
    /\ pc[c] = "login"
    /\ LET n == NextCandidate(ep[c], sig[c], o)
           h == [owner |-> c, shape |-> o.shape]
       IN  CASE n.next = "try" ->
                  /\ ep' = [ep EXCEPT ![c] = n.ep]
                  /\ sig' = [sig EXCEPT ![c] = n.sig]
                  /\ UNCHANGED << pc, http, pending, trace, resp >>
             [] n.next = "exhausted" ->
                  /\ ep' = [ep EXCEPT ![c] = 0]
                  /\ sig' = [sig EXCEPT ![c] = 0]
                  /\ Leave(c, LoginFailed(req[c].email, req[c].password), NoHandle)
                  /\ UNCHANGED << http, trace >>
             [] OTHER ->
                  /\ ep' = [ep EXCEPT ![c] = 0]
                  /\ sig' = [sig EXCEPT ![c] = 0]
                  /\ http' = [http EXCEPT ![c] = h]
                  /\ trace' = [trace EXCEPT ![c] =
                                 << Event("_extract_token_payload", c, FALSE),
                                    Event("json.dumps", 0, TokenPlain(h).raised) >>]
                  /\ IF TokenPlain(h).raised
                     THEN Leave(c, Raised(TokenPlain(h).type, << >>), h)
                     ELSE /\ pc' = [pc EXCEPT ![c] = "list"]
                          /\ UNCHANGED << pending, resp >>
    /\ UNCHANGED << accounts, clock, encKey, req, account_id, devices >>

\* What async_list_devices may do: return a raw list or raise.
ListOutcomes ==
    [kind : {"value"}, raw : RawDeviceLists, type : {""}]
        \cup [kind : {"raise"}, raw : {[isList |-> FALSE, items |-> << >>]},
              type : {"ValueError", "KeyError"}]

\* async_list_devices ends as o; on a value the coroutine normalises it, makes
\* the two store calls (each reaching the store or not: up1, up2) and is
\* suspended at logout.  Whatever raises leaves the try block.
ListDevicesReturn(c, o, up1, up2) ==
    /\ pc[c] = "list"
    /\ LET devs == _normalize_devices(o.raw)
           cr == create_or_update_account_auth(accounts, clock, encKey, req[c].email,
                                               TokenPlain(http[c]).text, up1)
           sd == set_account_devices(cr.docs, clock + 1, cr.id, devs, up2)
           listed ==
               Append(trace[c], Event("async_list_devices", http[c].owner, o.kind = "raise"))
           created ==
               Append(listed, Event("create_or_update_account_auth", cr.id, cr.raised))
           stored == Append(created, Event("set_account_devices", cr.id, sd.raised))
       IN  IF o.kind = "raise"
           THEN /\ Leave(c, Raised(o.type, VendorRawText), http[c])
                /\ trace' = [trace EXCEPT ![c] = listed]
                /\ UNCHANGED << accounts, clock, account_id, devices >>
           ELSE IF cr.raised
           THEN /\ Leave(c, Raised(cr.type, << >>), http[c])
                /\ trace' = [trace EXCEPT ![c] = created]
                /\ devices' = [devices EXCEPT ![c] = devs]
                /\ clock' = clock + 1
                /\ UNCHANGED << accounts, account_id >>
           ELSE IF sd.raised
           THEN /\ Leave(c, Raised(sd.type, << >>), http[c])
                /\ trace' = [trace EXCEPT ![c] = stored]
                /\ devices' = [devices EXCEPT ![c] = devs]
                /\ account_id' = [account_id EXCEPT ![c] = cr.id]
                /\ accounts' = sd.docs
                /\ clock' = clock + 2
           ELSE /\ trace' = [trace EXCEPT ![c] = stored]
                /\ pc' = [pc EXCEPT ![c] = "logout"]
                /\ devices' = [devices EXCEPT ![c] = devs]
                /\ account_id' = [account_id EXCEPT ![c] = cr.id]
                /\ accounts' = sd.docs
                /\ clock' = clock + 2
                /\ UNCHANGED << pending, resp >>
    /\ UNCHANGED << encKey, req, ep, sig, http >>

\* AfterLogout with what async_logout raises left to propagate.
AfterLogout_Propagating(raised, id, devs) ==
    IF raised THEN Raised("Exception", VendorRawText) ELSE Returned(id, devs)

\* Lines 65-74: what async_logout raises is caught and dropped, and the
\* return statement is reached either way.
AfterLogout(raised, id, devs) == Returned(id, devs)

\* async_logout returns or raises.
LogoutReturn(c, raised) ==
    /\ pc[c] = "logout"
    /\ trace' = [trace EXCEPT ![c] =
                   Append(@, Event("async_logout", http[c].owner, raised))]
    /\ Leave(c, AfterLogout(raised, account_id[c], devices[c]), http[c])
    /\ UNCHANGED << accounts, clock, encKey, req, ep, sig, http, account_id, devices >>

\* Lines 77-80: what async_close raises is caught and dropped; connect_account
\* is left the way its try block was left.
AfterClose(raised, p) == p

\* async_close returns or raises, and create_account answers.
CloseReturn(c, raised) ==
    /\ pc[c] = "close"
    /\ trace' = [trace EXCEPT ![c] =
                   Append(@, Event("async_close", http[c].owner, raised))]
    /\ pending' = [pending EXCEPT ![c] = AfterClose(raised, pending[c])]
    /\ resp' = [resp EXCEPT ![c] = create_account_response(AfterClose(raised, pending[c]))]
    /\ pc' = [pc EXCEPT ![c] = "done"]
    /\ UNCHANGED << accounts, clock, encKey, req, ep, sig, http, account_id, devices >>

\* POST /accounts/{account_id}/sync: nothing in it awaits the vendor.
SyncDevices(c, id, admin) ==
    /\ pc[c] = "idle"
    /\ req' = [req EXCEPT ![c] =
                 [op |-> "sync", email |-> "", password |-> << >>, account_id |-> id]]
    /\ pending' = [pending EXCEPT ![c] =
                     IF admin # "ok" THEN NoPending
                     ELSE sync_devices(accounts, encKey, id)]
    /\ resp' = [resp EXCEPT ![c] =
                  IF admin # "ok" THEN require_admin(admin)
                  ELSE sync_devices_response(sync_devices(accounts, encKey, id))]
    /\ pc' = [pc EXCEPT ![c] = "done"]
    /\ UNCHANGED << accounts, clock, encKey, ep, sig, http, account_id, devices, trace >>

\* The response has been sent: the request is over and its locals are gone.
Finish(c) ==
    /\ pc[c] = "done"
    /\ pc' = [pc EXCEPT ![c] = "idle"]
    /\ req' = [req EXCEPT ![c] = NoReq]
    /\ http' = [http EXCEPT ![c] = NoHandle]
    /\ account_id' = [account_id EXCEPT ![c] = 0]
    /\ devices' = [devices EXCEPT ![c] = << >>]
    /\ pending' = [pending EXCEPT ![c] = NoPending]
    /\ trace' = [trace EXCEPT ![c] = << >>]
    /\ resp' = [resp EXCEPT ![c] = NoResp]
    /\ UNCHANGED << accounts, clock, encKey, ep, sig >>

\* The process is restarted with another MEROSS_TOKEN_ENC_KEY; the store
\* outlives it, requests do not.
Restart(key) ==
    /\ \A c \in CallIds : pc[c] = "idle"
    /\ key # encKey
    /\ encKey' = key
    /\ UNCHANGED << accounts, clock, pc, req, ep, sig, http, account_id, devices,
                    pending, trace, resp >>

\* The account ids a sync request may name: the stored ones and one more.
SyncIds == 1..(Len(accounts) + 1)

\* A request is accepted while the model's budget of requests lasts, and is
\* served in the lowest slot that is free (slots are names, not program state).
Accepted(c) ==
    /\ budget > 0
    /\ budget' = budget - 1
    /\ \A d \in CallIds : d < c => pc[d] # "idle"

\* The system: requests arrive, are served concurrently, and end.
Next ==
    \/ \E c \in CallIds, r \in ConnectRequests, a \in AdminOutcomes :
          CreateAccount(c, r, a) /\ Accepted(c) /\ UNCHANGED << hist, pure >>
    \/ \E c \in CallIds, o \in LoginOutcomes :
          LoginReturn(c, o) /\ UNCHANGED << budget, hist, pure >>
    \/ \E c \in CallIds, o \in ListOutcomes, up1, up2 \in BOOLEAN :
          ListDevicesReturn(c, o, up1, up2) /\ UNCHANGED << budget, hist, pure >>
    \/ \E c \in CallIds, raised \in BOOLEAN :
          LogoutReturn(c, raised) /\ UNCHANGED << budget, hist, pure >>
    \/ \E c \in CallIds, raised \in BOOLEAN :
          CloseReturn(c, raised) /\ UNCHANGED << budget, hist, pure >>
    \/ \E c \in CallIds, id \in SyncIds, a \in AdminOutcomes :
          SyncDevices(c, id, a) /\ Accepted(c) /\ UNCHANGED << hist, pure >>
    \/ \E c \in CallIds : Finish(c) /\ UNCHANGED << budget, hist, pure >>
    \/ \E key \in EncKeys : Restart(key) /\ UNCHANGED << budget, hist, pure >>

Spec == Init /\ [][Next]_vars

(***************************************************************************)
(* The login search of one connect_account call, with its history          *)
(* recorded: each vendor login call made, as (endpoint index, signature    *)
(* index, how it ended), in the order made.  The search ends suspended at  *)
(* the first await after it, or with the request answered.                 *)
(***************************************************************************)
\* How a login call ended, as the search tells the ways apart.
Ended(o) ==
    CASE o.kind = "handle" -> "handle"
      [] o.kind = "none" -> "None"
      [] IsTypeError(o.type) -> "TypeError"
      [] OTHER -> "Exception"

Recorded(c, o) ==
    hist' = [hist EXCEPT ![c] = [log |-> Append(@.log, << ep[c], sig[c], Ended(o) >>)]]

Forgotten(c) == hist' = [hist EXCEPT ![c] = NoHist]

NextLogin ==
    \/ \E r \in ConnectRequests, a \in AdminOutcomes :
          CreateAccount(1, r, a) /\ UNCHANGED << budget, hist, pure >>
    \/ \E o \in LoginOutcomes : LoginReturn(1, o) /\ Recorded(1, o) /\ UNCHANGED << budget, pure >>
    \/ Finish(1) /\ Forgotten(1) /\ UNCHANGED << budget, pure >>

\* The search reads neither the store nor the key: one key is enough.
InitLogin == Init /\ encKey # ""

SpecLogin == InitLogin /\ [][NextLogin]_vars

(***************************************************************************)
(* Properties of the login search, over its recorded history (SpecLogin).  *)
(***************************************************************************)
\* The place of candidate (e, s) in the declared order: endpoints in the order
\* of api_candidates, and within an endpoint the signature variants in theirs.
Index(e, s) == (e - 1) * Len(SignatureVariants) + s

Candidates == (1..Len(api_candidates)) \X (1..Len(SignatureVariants))

\* How many times candidate (e, s) was called.
Attempts(log, e, s) == Cardinality({i \in DOMAIN log : log[i][1] = e /\ log[i][2] = s})

\* The search ended with candidate (e, s) yielding a session handle.
WonBy(log, e, s) == Len(log) > 0 /\ log[Len(log)] = << e, s, "handle" >>

\* An earlier variant of the same endpoint ended in something else than a
\* signature mismatch, which abandons the endpoint.
Abandoned(log, e, s) ==
    \E i \in DOMAIN log : log[i][1] = e /\ log[i][2] < s /\ log[i][3] # "TypeError"

\* C1 as stated: when candidate k is the first to yield a session handle,
\* every candidate before k was attempted exactly once and none after k.
C1_EveryEarlierCandidateOnce ==
    \A k \in Candidates :
        WonBy(hist[1].log, k[1], k[2]) =>
            \A d \in Candidates :
                Attempts(hist[1].log, d[1], d[2]) =
                    IF Index(d[1], d[2]) < Index(k[1], k[2]) THEN 1
                    ELSE IF d = k THEN 1 ELSE 0

\* C1 amended: the login calls are made in the declared order (so no
\* candidate twice), nothing is called after a handle was yielded, and when
\* candidate k yields the first handle, a candidate before k was called once
\* unless its endpoint had been abandoned by then, in which case it was not
\* called; no candidate after k was called.
C1_DeclaredOrderHaltAtFirstSuccess ==
    LET log == hist[1].log
    IN  /\ \A i \in 1..(Len(log) - 1) :
              /\ Index(log[i][1], log[i][2]) < Index(log[i + 1][1], log[i + 1][2])
              /\ log[i][3] # "handle"
        /\ pc[1] = "login" =>
              /\ \A i \in DOMAIN log : log[i][3] # "handle"
              /\ \A i \in DOMAIN log : Index(log[i][1], log[i][2]) < Index(ep[1], sig[1])
        /\ \A k \in Candidates :
              WonBy(log, k[1], k[2]) =>
                  /\ pc[1] # "login"
                  /\ \A d \in Candidates :
                        Attempts(log, d[1], d[2]) =
                            IF d = k THEN 1
                            ELSE IF Index(d[1], d[2]) > Index(k[1], k[2]) THEN 0
                            ELSE IF Abandoned(log, d[1], d[2]) THEN 0 ELSE 1

\* C1 witness: the handle came from the third variant of the second endpoint,
\* after signature mismatches and an abandoned first endpoint.
C1_Witness ==
    /\ WonBy(hist[1].log, 2, 3)
    /\ Abandoned(hist[1].log, 1, 3)
    /\ Attempts(hist[1].log, 2, 1) = 1
    /\ Attempts(hist[1].log, 2, 2) = 1

\* Every candidate called failed with an "other" failure (neither a signature
\* mismatch nor a None), which takes the search through the first variant of
\* each endpoint and exhausts it.
AllOtherFailed(c) ==
    /\ pc[c] = "done"
    /\ hist[c].log = [i \in 1..Len(api_candidates) |-> << i, 1, "Exception" >>]

\* C2 as stated: then connect_account raises the one ValueError with the
\* fixed hint message, and the message has no substring equal to the password.
C2_MessageWithoutPassword ==
    AllOtherFailed(1) =>
        /\ pending[1] = Raised("ValueError", LoginFailedMessage)
        /\ ~Contains(pending[1].msg, req[1].password)

\* C2 amended: then connect_account raises the one ValueError, nothing else
\* was called, and its message, which is also the detail of the 401, is the
\* fixed hint text whatever the password: the password occurs in it only when
\* it occurs in the fixed text.
C2_FixedMessageWhateverThePassword ==
    AllOtherFailed(1) =>
        /\ pending[1] = Raised("ValueError", LoginFailedMessage)
        /\ resp[1] = HttpError(401, LoginFailedMessage)
        /\ trace[1] = << >>
        /\ http[1] = NoHandle
        /\ Contains(resp[1].detail, req[1].password) =>
              Contains(LoginFailedMessage, req[1].password)

\* C2 witness: the search was exhausted by "other" failures for a password
\* that the message does not contain.
C2_Witness ==
    /\ AllOtherFailed(1)
    /\ Len(req[1].password) > 1
    /\ ~Contains(resp[1].detail, req[1].password)

(***************************************************************************)
(* Properties of connect_account and of the handlers (Spec).               *)
(***************************************************************************)
\* The positions in a trace of the calls named op.
Calls(tr, op) == {i \in DOMAIN tr : tr[i].op = op}

\* C3: once connect_account is over with a session handle obtained, however
\* its try block was left, the last call it made is the one close of that
\* handle.
C3_HandleAlwaysClosed ==
    \A c \in CallIds :
        (pc[c] = "done" /\ http[c] # NoHandle) =>
            /\ Calls(trace[c], "async_close") = {Len(trace[c])}
            /\ trace[c][Len(trace[c])].arg = http[c].owner

\* C3 witness: the login yielded a handle, a store write failed, and the
\* handle was closed.
C3_Witness ==
    \E c \in CallIds :
        /\ pc[c] = "done"
        /\ http[c] # NoHandle
        /\ pending[c].kind = "raise"
        /\ pending[c].type = StoreDown
        /\ Calls(trace[c], "async_close") # {}

\* C4 as stated: once connect_account is over with a session handle obtained,
\* logout was invoked on the handle and close after it.
C4_LogoutThenCloseAlways ==
    \A c \in CallIds :
        (pc[c] = "done" /\ http[c] # NoHandle) =>
            \E i, j \in DOMAIN trace[c] :
                /\ i < j
                /\ trace[c][i] .op = "async_logout"
                /\ trace[c][j] .op = "async_close"

\* C5: when the login, the listing and both store writes succeeded,
\* connect_account returns {accountId, status: connected, devices} whether or
\* not logout or close raised, and close is called right after logout.
C5_CleanupFailuresAbsorbed ==
    \A c \in CallIds :
        (/\ pc[c] = "done"
         /\ \E i \in Calls(trace[c], "set_account_devices") : ~trace[c][i].raised) =>
            /\ pending[c].kind = "return"
            /\ pending[c].accountId = account_id[c]
            /\ pending[c].status = "connected"
            /\ pending[c].devices = devices[c]
            /\ Len(trace[c]) >= 2
            /\ trace[c][Len(trace[c]) - 1].op = "async_logout"
            /\ trace[c][Len(trace[c])].op = "async_close"

\* C5 witness: both logout and close raised and connect_account returned.
C5_Witness ==
    \E c \in CallIds :
        /\ pc[c] = "done"
        /\ pending[c].kind = "return"
        /\ \E i \in Calls(trace[c], "async_logout") : trace[c][i].raised
        /\ \E i \in Calls(trace[c], "async_close") : trace[c][i].raised

\* C6 as stated: the store never holds two accounts with one email, and a
\* connect for an email that has an account gets that account's id, replaces
\* its credential and keeps its createdAt.
C6_UpsertByEmail ==
    [][ /\ \A i, j \in DOMAIN accounts' :
              accounts'[i].email = accounts'[j].email => i = j
        /\ \A c \in CallIds :
              (account_id'[c] # account_id[c] /\ account_id'[c] # 0) =>
                  \A i \in DOMAIN accounts :
                      accounts[i].email = req[c].email =>
                          /\ account_id'[c] = i
                          /\ accounts'[i].createdAt = accounts[i].createdAt
                          /\ accounts'[i].tokenEncrypted.plain = TokenPlain(http[c]).text
      ]_vars

\* C7 as stated: a step in which connect_account fails leaves the store as it
\* was (no step of the call before it writes to the store).
C7_NoPartialState ==
    [][ \A c \in CallIds :
            (/\ req'[c].op = "connect"
             /\ pending[c].kind # "raise"
             /\ pending'[c].kind = "raise") => accounts' = accounts
      ]_vars

\* A step that serves a sync request of slot c, past the admin gate.
SyncServed(c) ==
    /\ pc[c] = "idle"
    /\ pc'[c] = "done"
    /\ req'[c].op = "sync"
    /\ pending'[c].kind # "none"

C9_DetailNeverRawText ==
    \A c \in CallIds :
        (pc[c] = "done" /\ req[c].op = "connect" /\ pending[c].kind = "raise") =>
            \/ resp[c].detail = LoginFailedMessage
            \/ resp[c].detail = InternalErrorPrefix \o TypeName(pending[c].type)

\* C10: a connect_account that returns made one create_or_update_account_auth
\* call and then one set_account_devices call, the second on the id the first
\* returned; it returns that id, which is not empty, status connected and the
\* device list, which is the one the account's document holds.
C10_OneUpsertOneSetDevices ==
    \A c \in CallIds :
        (req[c].op = "connect" /\ pending[c].kind = "return") =>
            /\ Cardinality(Calls(trace[c], "create_or_update_account_auth")) = 1
            /\ Cardinality(Calls(trace[c], "set_account_devices")) = 1
            /\ \A i \in Calls(trace[c], "create_or_update_account_auth"),
                  j \in Calls(trace[c], "set_account_devices") :
                  /\ i < j
                  /\ trace[c][j].arg = trace[c][i].arg
                  /\ pending[c].accountId = trace[c][i].arg
            /\ pending[c].accountId # 0
            /\ pending[c].accountId \in DOMAIN accounts
            /\ pending[c].status = "connected"
            /\ accounts[pending[c].accountId].hasDevices
            /\ accounts[pending[c].accountId].devices = pending[c].devices

\* C10 witness: a connect was answered 200 with a device in its list, after
\* an earlier account had been stored.
C10_Witness ==
    \E c \in CallIds :
        /\ pc[c] = "done"
        /\ req[c].op = "connect"
        /\ pending[c].kind = "return"
        /\ resp[c].code = 200
        /\ resp[c].accountId = 2
        /\ Len(resp[c].devices) = 1

\* C11: every tokenEncrypted in the store is what encrypt_str gives under a
\* key that is set; with no key set, the credential write of a connect raises
\* RuntimeError with no document written and no further store call, and the
\* read of a stored credential raises RuntimeError instead of returning.
C11_EncryptedOrLoudFailure ==
    [][ /\ \A i \in DOMAIN accounts' :
              \E k \in EncKeys :
                  /\ ~encrypt_str(k, accounts'[i].tokenEncrypted.plain).raised
                  /\ accounts'[i].tokenEncrypted =
                        encrypt_str(k, accounts'[i].tokenEncrypted.plain).token
        /\ \A c \in CallIds :
              (/\ encKey = ""
               /\ pc[c] = "list"
               /\ Calls(trace'[c], "create_or_update_account_auth") # {}) =>
                  /\ accounts' = accounts
                  /\ pending'[c] = Raised("RuntimeError", << >>)
                  /\ Calls(trace'[c], "set_account_devices") = {}
        /\ \A c \in CallIds :
              (/\ encKey = ""
               /\ SyncServed(c)
               /\ req'[c].account_id \in DOMAIN accounts) =>
                  /\ get_account_token(accounts, encKey, req'[c].account_id).raised
                  /\ pending'[c] = Raised("RuntimeError", << >>)
      ]_vars

\* C11 witness: an account was stored under a key; the process then runs
\* without one and a connect has failed on its credential write, the store
\* holding what it held.
C11_Witness ==
    \E c \in CallIds :
        /\ encKey = ""
        /\ pc[c] = "done"
        /\ req[c].op = "connect"
        /\ pending[c] = Raised("RuntimeError", << >>)
        /\ Calls(trace[c], "create_or_update_account_auth") # {}
        /\ Len(accounts) = 1
        /\ accounts[1].tokenEncrypted.sealedWith # ""

(***************************************************************************)
(* The credential extractor on its own: _extract_token_payload applied to  *)
(* every session handle of a bounded family (SpecExtract).                 *)
(***************************************************************************)
\* The values an attribute may hold: None, an empty and a non-empty str, a
\* byte string, a vendor object.
CredValues == {PyNone, PyStr(""), PyStr("tok"), PyBytes("tok"), PyObject("vendor")}

\* The sets of attributes a credentials object may carry: at most
\* MaxCredAttrs of them.
AttrSets == {T \in SUBSET CredAttrs : Cardinality(T) <= MaxCredAttrs}

\* The credentials object with the attributes S, valued by g.
CredsObject(S, g) == [a \in CredAttrs |-> IF a \in S THEN g[a] ELSE Missing]

\* A session handle with a credentials object, alone or with a token and an
\* attribute the extractor has no use for beside it.
ModernHandle(creds, rest) ==
    [cloud_credentials |-> [t |-> "object", v |-> "creds", attrs |-> creds],
     token |-> rest[1], password |-> rest[2]]

\* A session handle whose cloud_credentials is missing or None.
LegacyHandle(ty, tk, pw) ==
    [cloud_credentials |-> [t |-> ty, v |-> "", attrs |-> NoAttrs],
     token |-> tk, password |-> pw]

\* h is one of the session handles given to the extractor.
SessionHandle(h) ==
    \/ \E S \in AttrSets, rest \in {<< Missing, Missing >>, << PyStr("tok"), PyStr("hunter2") >>} :
          \E g \in [S -> CredValues] : h = ModernHandle(CredsObject(S, g), rest)
    \/ \E ty \in {"missing", "NoneType"}, tk \in {Missing} \cup CredValues,
          pw \in {Missing, PyStr("hunter2")} : h = LegacyHandle(ty, tk, pw)

\* Line 50: token_payload = self._extract_token_payload(http)
Extract ==
    /\ token_payload = << >>
    /\ token_payload' = << _extract_token_payload(handle) >>
    /\ UNCHANGED << accounts, clock, encKey, budget, pc, req, ep, sig, http, account_id,
                    devices, pending, trace, resp, hist, handle, devices_raw, normalized >>

NextExtract == Extract

InitExtract ==
    /\ InitRequests
    /\ encKey # ""
    /\ SessionHandle(handle)
    /\ token_payload = << >>
    /\ devices_raw = NoRaw
    /\ normalized = << >>

SpecExtract == InitExtract /\ [][NextExtract]_vars

\* C12 as stated: the mapping returned has at least one key.
C12_NeverEmptyMapping ==
    token_payload # << >> => DOMAIN token_payload[1] # {}

\* C13: the keys of the mapping returned are among the nine whitelisted names
\* and session, whatever other attributes the handle or its credentials
\* object carries.
C13_KeysWithinWhitelist ==
    token_payload # << >> =>
        /\ DOMAIN token_payload[1] \subseteq
              {"token", "key", "userid", "email", "domain", "region", "mqttDomain",
               "mqttPort", "cloudToken", "session"}
        /\ "password" \notin DOMAIN token_payload[1]
        /\ "_session" \notin DOMAIN token_payload[1]

\* C13 witness: the credentials object carried a token and a password, and
\* the mapping returned has the token alone.
C13_Witness ==
    /\ token_payload # << >>
    /\ handle.cloud_credentials.t = "object"
    /\ handle.cloud_credentials.attrs["password"] = PyStr("tok")
    /\ handle.cloud_credentials.attrs["token"] = PyStr("tok")
    /\ DOMAIN token_payload[1] = {"token"}

\* C14 as stated: every value of the mapping returned is JSON-serializable, no
\* byte string among them, and json.dumps of the mapping does not raise.
C14_ValuesJsonSerializable ==
    token_payload # << >> =>
        /\ \A k \in DOMAIN token_payload[1] :
              /\ JsonSerializable(token_payload[1][k])
              /\ token_payload[1][k].t # "bytes"
        /\ ~JsonDumps(token_payload[1]).raised

(***************************************************************************)
(* The device normaliser on its own: _normalize_devices applied to every   *)
(* raw value of a bounded family (SpecNormalize).                          *)
(***************************************************************************)
\* The values a key or attribute of a raw record may hold.
DeviceValues ==
    {PyNone, PyStr(""), PyStr("online"), PyInt("1"), PyBool(TRUE), PyBool(FALSE)}

FieldSets == {T \in SUBSET DeviceFields : Cardinality(T) <= MaxDeviceFields}

\* The raw record of the given kind (a dict or an object) with the fields S,
\* valued by g.
RawDevice(kind, S, g) ==
    [kind |-> kind, f |-> [k \in DeviceFields |-> IF k \in S THEN g[k] ELSE Missing]]

\* raw is one of the values given to the normaliser: something that is not a
\* list, the empty list, or a list of one record.
RawValue(raw) ==
    \/ raw = [isList |-> FALSE, items |-> << >>]
    \/ raw = [isList |-> TRUE, items |-> << >>]
    \/ \E kind \in {"dict", "obj"}, S \in FieldSets :
          \E g \in [S -> DeviceValues] :
              raw = [isList |-> TRUE, items |-> << RawDevice(kind, S, g) >>]

\* Line 54: devices = self._normalize_devices(devices_raw)
Normalize ==
    /\ normalized = << >>
    /\ normalized' = << _normalize_devices(devices_raw) >>
    /\ UNCHANGED << accounts, clock, encKey, budget, pc, req, ep, sig, http, account_id,
                    devices, pending, trace, resp, hist, handle, token_payload,
                    devices_raw >>

NextNormalize == Normalize

InitNormalize ==
    /\ InitRequests
    /\ encKey # ""
    /\ handle = NoSession
    /\ token_payload = << >>
    /\ RawValue(devices_raw)
    /\ normalized = << >>

SpecNormalize == InitNormalize /\ [][NextNormalize]_vars

\* The onlineStatus of a raw record: the key of a dict, the attribute of an
\* object.
SourceOnlineStatus(d) ==
    IF d.kind = "dict" THEN d.f["onlineStatus"] ELSE d.f["online_status"]

\* C15 as stated: each record produced has the source's onlineStatus when
\* that is a bool, and None when it is of any other type or absent.
C15_OnlineStatusStrictlyBoolean ==
    normalized # << >> =>
        \A i \in DOMAIN normalized[1] :
            normalized[1][i].onlineStatus =
                IF SourceOnlineStatus(devices_raw.items[i]).t = "bool"
                THEN SourceOnlineStatus(devices_raw.items[i])
                ELSE PyNone

(***************************************************************************)
(* Properties of the steps of the login search (SpecLogin).                *)
(***************************************************************************)
\* C16: a login call before the last signature variant of its endpoint that
\* ended in TypeError is followed by the call of the next variant at the same
\* endpoint; until that call ends the search is suspended at it, nothing else
\* having been called and connect_account not left.
C16_MismatchTriesNextVariant ==
    LET log == hist[1].log
    IN  \A i \in DOMAIN log :
            (log[i][3] = "TypeError" /\ log[i][2] < Len(SignatureVariants)) =>
                IF i < Len(log)
                THEN /\ log[i + 1][1] = log[i][1]
                     /\ log[i + 1][2] = log[i][2] + 1
                ELSE /\ pc[1] = "login"
                     /\ ep[1] = log[i][1]
                     /\ sig[1] = log[i][2] + 1
                     /\ http[1] = NoHandle
                     /\ trace[1] = << >>
                     /\ pending[1] = NoPending

\* C16 witness: the first variant of the first endpoint ended in TypeError
\* and the second variant of that endpoint was called.
C16_Witness ==
    /\ Len(hist[1].log) >= 2
    /\ hist[1].log[1] = << 1, 1, "TypeError" >>
    /\ hist[1].log[2][1] = 1
    /\ hist[1].log[2][2] = 2

\* C17: a login call that returned None or raised anything but TypeError is
\* followed by no call of a later variant of its endpoint: the next call is
\* of the first variant of the next endpoint, and after the last endpoint
\* there is none.
C17_OtherFailureAbandonsEndpoint ==
    LET log == hist[1].log
    IN  \A i \in DOMAIN log :
            log[i][3] \in {"None", "Exception"} =>
                /\ \A s \in 1..Len(SignatureVariants) :
                      s > log[i][2] => Attempts(log, log[i][1], s) = 0
                /\ IF i < Len(log)
                   THEN /\ log[i + 1][1] = log[i][1] + 1
                        /\ log[i + 1][2] = 1
                   ELSE IF log[i][1] < Len(api_candidates)
                   THEN /\ pc[1] = "login"
                        /\ ep[1] = log[i][1] + 1
                        /\ sig[1] = 1
                   ELSE pc[1] # "login"

\* C17 witness: the second variant of the first endpoint raised something
\* else than TypeError, and the next call was of the first variant of the
\* second endpoint.
C17_Witness ==
    /\ Len(hist[1].log) >= 3
    /\ hist[1].log[2] = << 1, 2, "Exception" >>
    /\ hist[1].log[3][1] = 2
    /\ hist[1].log[3][2] = 1

(***************************************************************************)
(* Properties of the calls connect_account makes (Spec).                   *)
(***************************************************************************)
\* C18: the step in which the login search of a connect ends with no session
\* handle ends connect_account: it raises LoginFailed, which create_account
\* answers, with no extraction, listing, store call, logout or close made,
\* and the store as it was.
C18_LoginFailureStraightToClosed ==
    [][ \A c \in CallIds :
            (pc[c] = "login" /\ pc'[c] # "login" /\ http'[c] = NoHandle) =>
                /\ pc'[c] = "done"
                /\ pending'[c] = Raised("ValueError", LoginFailedMessage)
                /\ resp'[c] = HttpError(401, LoginFailedMessage)
                /\ trace'[c] = << >>
                /\ account_id'[c] = 0
                /\ accounts' = accounts
      ]_vars

\* C18 witness: a connect was answered with LoginFailed, no call made, while
\* an account stored by an earlier connect is still what the store holds.
C18_Witness ==
    \E c \in CallIds :
        /\ pc[c] = "done"
        /\ req[c].op = "connect"
        /\ pending[c] = Raised("ValueError", LoginFailedMessage)
        /\ http[c] = NoHandle
        /\ trace[c] = << >>
        /\ Len(accounts) = 1

\* C19: whatever the interleaving, a connect calls the vendor only on the
\* session handle it obtained itself; the account it wrote is no other
\* connect's in flight and holds its own email, credential and device list;
\* and what it returns is its own account id and device list.
C19_ConnectsIsolated ==
    \A c \in CallIds :
        req[c].op = "connect" =>
            /\ http[c] # NoHandle => http[c].owner = c
            /\ \A i \in DOMAIN trace[c] :
                  trace[c][i].op \in {"_extract_token_payload", "async_list_devices",
                                      "async_logout", "async_close"} =>
                      /\ trace[c][i].arg = c
                      /\ http[c].owner = c
            /\ account_id[c] # 0 =>
                  /\ \A d \in CallIds \ {c} : account_id[d] # account_id[c]
                  /\ \A i \in Calls(trace[c], "set_account_devices") :
                        trace[c][i].arg = account_id[c]
                  /\ accounts[account_id[c]].email = req[c].email
                  /\ accounts[account_id[c]].tokenEncrypted.plain = TokenPlain(http[c]).text
                  /\ accounts[account_id[c]].hasDevices =>
                        accounts[account_id[c]].devices = devices[c]
            /\ pending[c].kind = "return" =>
                  /\ pending[c].accountId = account_id[c]
                  /\ pending[c].devices = devices[c]
                  /\ accounts[account_id[c]].devices = devices[c]

\* C19 witness: two connects for the same email are in flight, both
\* suspended at their logout, each with its own handle, its own account and
\* its own device list.
C19_Witness ==
    /\ \A c \in CallIds : pc[c] = "logout" /\ http[c].owner = c
    /\ req[1].email = req[2].email
    /\ account_id[1] # 0
    /\ account_id[2] # 0
    /\ account_id[1] # account_id[2]
    /\ devices[1] # devices[2]
    /\ accounts[account_id[1]].devices = devices[1]
    /\ accounts[account_id[2]].devices = devices[2]

(***************************************************************************)
(* One connect_account call from the request to the answer, every vendor   *)
(* call it awaits ending sooner or later, with the login calls it made     *)
(* recorded as (endpoint index, signature index) (SpecConnect).            *)
(***************************************************************************)
Called(c) ==
    hist' = [hist EXCEPT ![c] = [log |-> Append(@.log, << ep[c], sig[c], "ended" >>)]]

\* An awaited call of the request in slot 1 returns or raises.
LoginEnds ==
    \E o \in LoginOutcomes : LoginReturn(1, o) /\ Called(1) /\ UNCHANGED << budget, pure >>

ListDevicesEnds ==
    \E o \in ListOutcomes, up1, up2 \in BOOLEAN :
        ListDevicesReturn(1, o, up1, up2) /\ UNCHANGED << budget, hist, pure >>

LogoutEnds ==
    \E raised \in BOOLEAN : LogoutReturn(1, raised) /\ UNCHANGED << budget, hist, pure >>

CloseEnds ==
    \E raised \in BOOLEAN : CloseReturn(1, raised) /\ UNCHANGED << budget, hist, pure >>

NextConnect ==
    \/ \E r \in ConnectRequests, a \in AdminOutcomes :
          CreateAccount(1, r, a) /\ UNCHANGED << budget, hist, pure >>
    \/ LoginEnds
    \/ ListDevicesEnds
    \/ LogoutEnds
    \/ CloseEnds

\* Without a key the credential write raises, as it does when the store is
\* not reached: one key is enough.
InitConnect == Init /\ encKey # ""

SpecConnect ==
    /\ InitConnect
    /\ [][NextConnect]_vars
    /\ WF_vars(LoginEnds)
    /\ WF_vars(ListDevicesEnds)
    /\ WF_vars(LogoutEnds)
    /\ WF_vars(CloseEnds)

\* C20: a connect_account call makes at most 20 login calls, none of an
\* (endpoint, signature variant) pair it already called, and, its awaited
\* calls all ending, is over in the end, with a result or an error.
C20_TerminatesWithin20LoginCalls ==
    /\ [](Len(hist[1].log) <= 20)
    /\ [](\A k \in Candidates : Attempts(hist[1].log, k[1], k[2]) <= 1)
    /\ (pc[1] = "login") ~> (pc[1] = "done" /\ pending[1].kind \in {"return", "raise"})

\* C20 witness: connect_account is over after 20 login calls.
C20_Witness ==
    /\ pc[1] = "done"
    /\ pending[1].kind = "raise"
    /\ Len(hist[1].log) = 20
    /\ \A k \in Candidates : Attempts(hist[1].log, k[1], k[2]) = 1

====
